---- MODULE Spec2Model ----
(***************************************************************************)
(* Anorvis orchestrator (src/src/aiq/tool/agents/anorvis/anorvis.py) with  *)
(* its two workers, Backrub (research) and Warren (finance).               *)
(*                                                                         *)
(* One invocation of _anorvis is modelled: the AnorvisState dict, the      *)
(* position of the invocation in the StateGraph (pc), the local variable   *)
(* research_response that coordinate_agents holds across its awaits, and   *)
(* history variables recording the worker invocations, the capability      *)
(* calls and the assignments to the state fields.                          *)
(*                                                                         *)
(* Text is modelled as TLA+ strings; the Python string operations the code *)
(* uses (strip, lower, split(...)[-1], in, slicing) are operators on them. *)
(***************************************************************************)
EXTENDS Integers, Sequences, FiniteSets, TLC

\* ------------------------------------------------------------------ bounds

\* The long lookup-tool text is 13 + 10 * LongTens characters, longer than
\* every truncation length of the orchestrator.
LongTens == 130

\* The exhaustive capability answers to the classification prompt are built
\* from at most MaxPieces pieces.
MaxPieces == 3

\* The number of concurrent invocations of _anorvis.
Invocations == 2

\* ------------------------------------------------- Python string operations

Min(a, b) == IF a <= b THEN a ELSE b

SetMin(S) == CHOOSE x \in S : \A y \in S : x <= y

SetMax(S) == CHOOSE x \in S : \A y \in S : y <= x

\* s[i:i+1] for 1-based i
Char(s, i) == SubSeq(s, i, i)

\* s[:n]
Prefix(s, n) == SubSeq(s, 1, Min(n, Len(s)))

\* needle in s
Contains(s, needle) ==
    \E i \in 1..(Len(s) - Len(needle) + 1) : SubSeq(s, i, i + Len(needle) - 1) = needle

UpperToLower ==
    [c \in {"A","B","C","D","E","F","G","H","I","J","K","L","M",
            "N","O","P","Q","R","S","T","U","V","W","X","Y","Z"} |->
        CASE c = "A" -> "a" [] c = "B" -> "b" [] c = "C" -> "c" [] c = "D" -> "d"
          [] c = "E" -> "e" [] c = "F" -> "f" [] c = "G" -> "g" [] c = "H" -> "h"
          [] c = "I" -> "i" [] c = "J" -> "j" [] c = "K" -> "k" [] c = "L" -> "l"
          [] c = "M" -> "m" [] c = "N" -> "n" [] c = "O" -> "o" [] c = "P" -> "p"
          [] c = "Q" -> "q" [] c = "R" -> "r" [] c = "S" -> "s" [] c = "T" -> "t"
          [] c = "U" -> "u" [] c = "V" -> "v" [] c = "W" -> "w" [] c = "X" -> "x"
          [] c = "Y" -> "y" [] c = "Z" -> "z"]

RECURSIVE Lower(_)
\* s.lower(), by halves so that the recursion depth stays logarithmic
Lower(s) ==
    IF Len(s) = 0 THEN ""
    ELSE IF Len(s) = 1 THEN (IF s \in DOMAIN UpperToLower THEN UpperToLower[s] ELSE s)
    ELSE LET h == Len(s) \div 2
         IN  Lower(SubSeq(s, 1, h)) \o Lower(SubSeq(s, h + 1, Len(s)))

\* the characters str.strip() removes
Whitespace == {" ", "\n", "\t", "\r", "\f"}

\* s.strip(chars): drop leading and trailing characters that are in chars
StripChars(s, chars) ==
    LET keep == {i \in 1..Len(s) : Char(s, i) \notin chars}
    IN  IF keep = {} THEN "" ELSE SubSeq(s, SetMin(keep), SetMax(keep))

\* s.strip()
Strip(s) == StripChars(s, Whitespace)

\* s.split(sep)[-1]: the text after the last occurrence of sep, s when none
SplitLast(s, sep) ==
    LET occ == {i \in 1..(Len(s) - Len(sep) + 1) : SubSeq(s, i, i + Len(sep) - 1) = sep}
    IN  IF occ = {} THEN s ELSE SubSeq(s, SetMax(occ) + Len(sep), Len(s))

RECURSIVE Repeat(_, _)
\* s * n, by halves
Repeat(s, n) ==
    IF n = 0 THEN ""
    ELSE IF n = 1 THEN s
    ELSE Repeat(s, n \div 2) \o Repeat(s, n - (n \div 2))

\* ------------------------------------------------------------- classifier

\* Mutant of Classification: the answer is not lower-cased
Classification_NoLower(content) ==
    LET c0 == Strip(content)
        c1 == IF Contains(c0, "classification:")
              THEN Strip(SplitLast(c0, "classification:")) ELSE c0
        c2 == IF Contains(c1, ":") THEN Strip(SplitLast(c1, ":")) ELSE c1
    IN  StripChars(c2, {"'", "\"", " "})

\* The clean-up of the capability's answer in classify_query
Classification(content) ==
    LET c0 == Lower(Strip(content))
        c1 == IF Contains(c0, "classification:")
              THEN Strip(SplitLast(c0, "classification:")) ELSE c0
        c2 == IF Contains(c1, ":") THEN Strip(SplitLast(c1, ":")) ELSE c1
    IN  StripChars(c2, {"'", "\"", " "})

\* Mutant of AgentFor: the final else stores the token itself
AgentFor_Propagates(classification) ==
    IF classification = "coordinate" THEN "coordinator"
    ELSE IF classification = "backrub" THEN "backrub"
    ELSE IF classification = "warren" THEN "warren"
    ELSE classification

\* The current_agent that classify_query stores for a cleaned-up classification
AgentFor(classification) ==
    IF classification = "coordinate" THEN "coordinator"
    ELSE IF classification = "backrub" THEN "backrub"
    ELSE IF classification = "warren" THEN "warren"
    ELSE "general"

\* The truncation lengths of the orchestrator's f-strings
FinalAnalysisResearchLen == 1000

SummaryResearchLen == 1000

SummaryFinanceLen == 800

ResearchOnlyLen == 500

SingleResearchLen == 300

SingleFinanceLen == 300

\* ----------------------------------------------------- Backrub (research)

\* The outcome of awaiting one lookup tool: it raises, or returns text
ToolRaises == [raises |-> TRUE, text |-> ""]

ToolReturns(t) == [raises |-> FALSE, text |-> t]

\* tools.web_get / tools.wiki_get: builder.get_tool returned (TRUE) or raised.
\* Both calls share one try block: when either raises, both tools are None.
ToolsObtained(tools) == tools.web_get /\ tools.wiki_get

\* The research_results list of _backrub
BackrubSections(tools) ==
    LET web  == IF ToolsObtained(tools) /\ ~tools.web.raises /\ tools.web.text # ""
                THEN <<"**Current Web Search Results:**\n" \o tools.web.text>> ELSE <<>>
        wiki == IF ToolsObtained(tools) /\ ~tools.wiki.raises /\ tools.wiki.text # ""
                THEN <<"**Wikipedia Background:**\n" \o tools.wiki.text>> ELSE <<>>
    IN  web \o wiki

\* "\n\n---\n\n".join(research_results), for a list of one or two sections
JoinSections(sections) ==
    IF Len(sections) = 1 THEN sections[1]
    ELSE sections[1] \o "\n\n---\n\n" \o sections[2]

\* financial_analysis_needed of _backrub, from the capability's answer
FinancialAnalysisNeeded(content) == Lower(Strip(content))

\* Whether an exception raised inside a try block leaves it: it does unless the
\* block's except clause catches it
Escapes(raises, caught) == raises /\ ~caught

\* Mutant of BackrubEscapes: web_search.ainvoke is awaited outside a try block
BackrubEscapes_WebUnguarded(tools) ==
    ToolsObtained(tools) /\ tools.web.raises

\* Whether a lookup tool's exception leaves _backrub. Each of the three try
\* blocks (get_tool twice, web_search.ainvoke, wiki_search.ainvoke) has an
\* `except Exception` clause
BackrubEscapes(tools) ==
    \/ Escapes(~ToolsObtained(tools), TRUE)
    \/ ToolsObtained(tools) /\ Escapes(tools.web.raises, TRUE)
    \/ ToolsObtained(tools) /\ Escapes(tools.wiki.raises, TRUE)

\* Mutant of Backrub: the referral suffix is worded without the word the
\* coordinator looks for
Backrub_SuffixReworded(query, analysis, tools) ==
    LET sections == BackrubSections(tools)
        body == IF sections # <<>>
                THEN "Hey! I just looked into '" \o query
                     \o "' for you. Here's what I found:\n\n" \o JoinSections(sections)
                ELSE "Hey! I tried to look into '" \o query
                     \o "' for you, but I couldn't find much current info."
                     \o " You might want to try a different search or ask me something else!"
    IN  IF Contains(FinancialAnalysisNeeded(analysis), "financial")
        THEN body \o "\n\nThis seems like something where some money advice could"
                  \o " really help you out. Want me to connect you with my friend who"
                  \o " knows that stuff?"
        ELSE body \o "\n\nHope that helps! Let me know if you need anything else."

\* The text _backrub(query) returns, given the capability's answer to its analysis
\* prompt and the outcomes of its lookup tools
Backrub(query, analysis, tools) ==
    LET sections == BackrubSections(tools)
        body == IF sections # <<>>
                THEN "Hey! I just looked into '" \o query
                     \o "' for you. Here's what I found:\n\n" \o JoinSections(sections)
                ELSE "Hey! I tried to look into '" \o query
                     \o "' for you, but I couldn't find much current info."
                     \o " You might want to try a different search or ask me something else!"
    IN  IF Contains(FinancialAnalysisNeeded(analysis), "financial")
        THEN body \o "\n\nThis seems like something where some financial advice could"
                  \o " really help you out. Want me to connect you with my friend who"
                  \o " knows that stuff?"
        ELSE body \o "\n\nHope that helps! Let me know if you need anything else."

\* ------------------------------------------------------- Warren (finance)

\* Mutant of IsFinalAnalysisCall: the test looks for a heading the follow-up
\* prompt does not carry
IsFinalAnalysisCall_OtherMarker(query) ==
    Contains(query, "Research results:") \/ Contains(query, "Final analysis request")

\* Warren's test for a final-analysis call
IsFinalAnalysisCall(query) ==
    Contains(query, "research that has been done") \/ Contains(query, "Based on this research")

WarrenReferral ==
    "\nHey! I'd love to help you with some financial advice, but I think we'd both"
    \o " benefit from getting some current market info first.\n\n"
    \o "What I can help you with:\n"
    \o "- Understanding investment strategies\n"
    \o "- Risk assessment and portfolio planning\n"
    \o "- Financial analysis and recommendations\n\n"
    \o "My suggestion: Let me connect you with my research buddy who can get us the"
    \o " latest market data and trends. Then I can give you some solid financial advice"
    \o " based on what's actually happening right now.\n\n"
    \o "Sound good? Just ask Anorvis to coordinate us and we'll get you sorted!\n"

\* The text _warren(query) returns, given the capability's answers to its
\* analysis prompt and to its advice prompt
Warren(query, analysis, advice) ==
    IF IsFinalAnalysisCall(query) THEN advice
    ELSE IF Contains(Lower(Strip(analysis)), "research") THEN WarrenReferral
    ELSE advice

\* The capability calls one run of _warren(query) makes, in order
WarrenCalls(query, analysis) ==
    IF IsFinalAnalysisCall(query) THEN <<[by |-> "warren.advice", input |-> query]>>
    ELSE IF Contains(Lower(Strip(analysis)), "research")
         THEN <<[by |-> "warren.analysis", input |-> query]>>
    ELSE <<[by |-> "warren.analysis", input |-> query],
           [by |-> "warren.advice", input |-> query]>>

\* ------------------------------------------------------------ orchestrator

\* Mutant of BackrubSuggestsCoordination: the test for the peer's name is lost
BackrubSuggestsCoordination_CoordinateOnly(response) ==
    Contains(Lower(response), "coordinate")

\* route_to_backrub's test that Backrub suggests coordination
BackrubSuggestsCoordination(response) ==
    Contains(Lower(response), "coordinate") \/ Contains(Lower(response), "warren")

\* route_to_warren's test that Warren suggests coordination
WarrenSuggestsCoordination(response) ==
    Contains(Lower(response), "coordinate") \/ Contains(Lower(response), "backrub")

\* Mutant of SuggestsFinancialAnalysis: the second disjunct is lost
SuggestsFinancialAnalysis_WarrenOnly(research) ==
    Contains(Lower(research), "warren")

\* coordinate_agents' test that Backrub suggested financial analysis
SuggestsFinancialAnalysis(research) ==
    Contains(Lower(research), "warren") \/ Contains(Lower(research), "financial")

\* Mutant of FinalAnalysisPrompt: Warren is asked the user's query again
FinalAnalysisPrompt_RawQuery(query, research) == query

\* final_analysis_prompt of coordinate_agents
FinalAnalysisPrompt(query, research) ==
    "\nYou are a financial advisor. The user is asking: " \o query
    \o "\n\nHere is the research that has been done: "
    \o Prefix(research, FinalAnalysisResearchLen)
    \o "\n\nBased on this research, provide a final, confident answer with:\n"
    \o "1. Specific stock recommendations based on the research\n"
    \o "2. Clear investment advice and reasoning\n"
    \o "3. Risk considerations\n"
    \o "4. Actionable next steps\n\n"
    \o "Be confident, specific, and give concrete advice."
    \o " The user is waiting for your expert financial opinion.\n"

\* Mutant of SummaryPrompt: the financial advice is cut like the single-worker
\* text
SummaryPrompt_ShortFinance(research, finance) ==
    "\nYou are a helpful friend who just completed research and got final financial"
    \o " advice. Create a short, friendly summary for the user.\n\n"
    \o "Research results: " \o Prefix(research, SummaryResearchLen) \o "\n"
    \o "Final financial advice: " \o Prefix(finance, SingleFinanceLen) \o "\n\n"
    \o "Write a brief, confident response that:\n"
    \o "1. Starts with \"Hey! I looked into that for you...\"\n"
    \o "2. Gives specific stock recommendations based on the research\n"
    \o "3. Provides clear, actionable advice\n"
    \o "4. Ends with a friendly reminder about doing your own research\n\n"
    \o "Be confident and specific - the agents have finished their analysis and are"
    \o " ready to give you a final answer.\n"
    \o "Keep it under 200 words and make it sound like a friend giving you solid advice!\n"

\* summary_prompt of finalize_response
SummaryPrompt(research, finance) ==
    "\nYou are a helpful friend who just completed research and got final financial"
    \o " advice. Create a short, friendly summary for the user.\n\n"
    \o "Research results: " \o Prefix(research, SummaryResearchLen) \o "\n"
    \o "Final financial advice: " \o Prefix(finance, SummaryFinanceLen) \o "\n\n"
    \o "Write a brief, confident response that:\n"
    \o "1. Starts with \"Hey! I looked into that for you...\"\n"
    \o "2. Gives specific stock recommendations based on the research\n"
    \o "3. Provides clear, actionable advice\n"
    \o "4. Ends with a friendly reminder about doing your own research\n\n"
    \o "Be confident and specific - the agents have finished their analysis and are"
    \o " ready to give you a final answer.\n"
    \o "Keep it under 200 words and make it sound like a friend giving you solid advice!\n"

\* Mutant of ResearchOnlyText: the research is cut like the single-worker text
ResearchOnlyText_SingleLen(research) ==
    "\nHey! I found some info for you:\n\n" \o Prefix(research, SingleResearchLen)
    \o "...\n\nWant me to get some financial advice to go with this research?\n"

ResearchOnlyText(research) ==
    "\nHey! I found some info for you:\n\n" \o Prefix(research, ResearchOnlyLen)
    \o "...\n\nWant me to get some financial advice to go with this research?\n"

SingleResearchText(research) ==
    "\nHey! Here's what I found:\n\n" \o Prefix(research, SingleResearchLen) \o "...\n"

\* Mutant of SingleFinanceText: the whole financial analysis is quoted
SingleFinanceText_Whole(finance) ==
    "\nHey! Here's what my financial expert friend had to say:\n\n"
    \o finance \o "...\n"

SingleFinanceText(finance) ==
    "\nHey! Here's what my financial expert friend had to say:\n\n"
    \o Prefix(finance, SingleFinanceLen) \o "...\n"

\* Mutant of FallbackText: the else branch assigns no text
FallbackText_Empty == ""

FallbackText == "Sorry, I'm having trouble with that right now. Can you try again?"

\* Mutant of FinalizeBranch: the research-only elif is lost
FinalizeBranch_NoResearchOnly(agent, research, finance, final) ==
    IF agent = "coordinator" /\ research # "" /\ finance # "" THEN "summary"
    ELSE IF research # "" THEN "single_research"
    ELSE IF finance # "" THEN "single_finance"
    ELSE IF final # "" THEN "pass"
    ELSE "fallback"

\* Mutant of FinalizeBranch: the research-only elif does not test current_agent
FinalizeBranch_IgnoresAgent(agent, research, finance, final) ==
    IF agent = "coordinator" /\ research # "" /\ finance # "" THEN "summary"
    ELSE IF research # "" /\ finance = "" THEN "research_only"
    ELSE IF research # "" THEN "single_research"
    ELSE IF finance # "" THEN "single_finance"
    ELSE IF final # "" THEN "pass"
    ELSE "fallback"

\* Mutant of FinalizeBranch: the elif that keeps handle_general's answer is lost
FinalizeBranch_NoPass(agent, research, finance, final) ==
    IF agent = "coordinator" /\ research # "" /\ finance # "" THEN "summary"
    ELSE IF agent = "coordinator" /\ research # "" /\ finance = "" THEN "research_only"
    ELSE IF research # "" THEN "single_research"
    ELSE IF finance # "" THEN "single_finance"
    ELSE "fallback"

\* The branch of finalize_response's if/elif chain that a state takes
FinalizeBranch(agent, research, finance, final) ==
    IF agent = "coordinator" /\ research # "" /\ finance # "" THEN "summary"
    ELSE IF agent = "coordinator" /\ research # "" /\ finance = "" THEN "research_only"
    ELSE IF research # "" THEN "single_research"
    ELSE IF finance # "" THEN "single_finance"
    ELSE IF final # "" THEN "pass"
    ELSE "fallback"

\* Mutant of Finalized: the branch for handle_general's answer assigns the apology
Finalized_PassOverwrites(branch, research, finance, final, summary) ==
    CASE branch = "summary"         -> summary
      [] branch = "research_only"   -> ResearchOnlyText(research)
      [] branch = "single_research" -> SingleResearchText(research)
      [] branch = "single_finance"  -> SingleFinanceText(finance)
      [] OTHER                      -> FallbackText

\* Mutant of Finalized: the summary branch formats the research instead of
\* returning the capability's answer
Finalized_SummaryDropped(branch, research, finance, final, summary) ==
    CASE branch = "summary"         -> ResearchOnlyText(research)
      [] branch = "research_only"   -> ResearchOnlyText(research)
      [] branch = "single_research" -> SingleResearchText(research)
      [] branch = "single_finance"  -> SingleFinanceText(finance)
      [] branch = "pass"            -> final
      [] OTHER                      -> FallbackText

\* Mutant of Finalized: without worker results final_response is left as it is,
\* empty or not
Finalized_NoFallback(branch, research, finance, final, summary) ==
    CASE branch = "summary"         -> summary
      [] branch = "research_only"   -> ResearchOnlyText(research)
      [] branch = "single_research" -> SingleResearchText(research)
      [] branch = "single_finance"  -> SingleFinanceText(finance)
      [] OTHER                      -> final

\* final_response after finalize_response; summary is the capability's answer
\* to the summary prompt (read on the summary branch alone)
Finalized(branch, research, finance, final, summary) ==
    CASE branch = "summary"         -> summary
      [] branch = "research_only"   -> ResearchOnlyText(research)
      [] branch = "single_research" -> SingleResearchText(research)
      [] branch = "single_finance"  -> SingleFinanceText(finance)
      [] branch = "pass"            -> final
      [] OTHER                      -> FallbackText

\* The key route_decision returns for a current_agent
RouteDecision(agent) ==
    IF agent = "coordinator" THEN "coordinate"
    ELSE IF agent = "backrub" THEN "backrub"
    ELSE IF agent = "warren" THEN "warren"
    ELSE "general"

\* Mutant of EdgeTarget: the backrub key is wired to coordinate_agents
EdgeTarget_Miswired(key) ==
    CASE key = "backrub"    -> "coordinate_agents"
      [] key = "warren"     -> "route_to_warren"
      [] key = "coordinate" -> "coordinate_agents"
      [] key = "general"    -> "handle_general"

\* The node the conditional edge from classify maps a key to
EdgeTarget(key) ==
    CASE key = "backrub"    -> "route_to_backrub"
      [] key = "warren"     -> "route_to_warren"
      [] key = "coordinate" -> "coordinate_agents"
      [] key = "general"    -> "handle_general"

\* ------------------------------------------------------- inputs (bounded)

Queries ==
    {"What is quantum computing?",
     "What stocks should I buy right now?",
     "Who is Warren Buffett?"}

\* Texts the capability may return to the classifier: a token, optionally
\* quoted, behind an echoed prefix and before trailing white space
ClassifierPrefixes == {"", "Classification: ", "User query: hi\nclassification:"}

ClassifierQuotes == {"", "'", "\""}

ClassifierTokens ==
    {"coordinate", "Coordinate", "backrub", "BACKRUB", "warren", "general", "",
     "research", "finance", "coordinator", "backrub and warren", "unsure"}

ClassifierTails == {"", "  ", "\n"}

ClassifierOutputs ==
    {p \o q \o t \o q \o e :
        p \in ClassifierPrefixes, q \in ClassifierQuotes,
        t \in ClassifierTokens, e \in ClassifierTails}
    \cup {"I would say: backrub", "warren: no, coordinate"}

\* The pieces capability answers are put together from: tokens in mixed case,
\* the echoed prefix, a colon, the quotes, a space, a newline and a stray word
ClassifierPieces ==
    {"Coordinate", "backrub", "Warren", "Classification:", ":", "'", "\"", " ",
     "\n", "or"}

RECURSIVE PieceStrings(_)
\* Every concatenation of at most n pieces
PieceStrings(n) ==
    IF n = 0 THEN {""}
    ELSE {""} \cup {p \o s : p \in ClassifierPieces, s \in PieceStrings(n - 1)}

\* What the capability may answer to the classification prompt, exhaustively
\* over the pieces, and the mixed-case, quoted, prefix-echoed answer
ClassifierPieceOutputs ==
    PieceStrings(MaxPieces) \cup {"Classification: 'Coordinate'  "}

\* Texts the capability may return to Backrub's analysis prompt
BackrubAnalysisOutputs == {"financial", "General", " 'Financial'\n"}

\* Texts the capability may return to Warren's analysis prompt
WarrenAnalysisOutputs == {"Research", "general"}

LongText == "Long report: " \o Repeat("0123456789", LongTens)

\* Texts the capability may return to Warren's advice prompt
AdviceOutputs ==
    {"", "Buy a broad index fund and hold it.",
     "Ask Backrub for current data first.", LongText}

\* Texts the capability may return to the summary prompt
SummaryOutputs == {"", "Hey! I looked into that for you... Do your own research too!"}

\* Texts the capability may return to handle_general
GeneralOutputs == {"", "Hello! I route research and finance questions."}

WebOutcomes ==
    {ToolRaises, ToolReturns(""), ToolReturns("Qubits use superposition."),
     ToolReturns("Markets rallied on FINANCIAL news."), ToolReturns(LongText)}

WikiOutcomes == {ToolRaises, ToolReturns(""), ToolReturns("Background article.")}

\* What Backrub's lookup tools do in one run: get_tool raises for the first
\* tool, or for the second (whatever the other tool would return), or both
\* tools are obtained and awaited
ToolEnvs ==
    {[web_get |-> FALSE, wiki_get |-> TRUE, web |-> ToolRaises, wiki |-> ToolRaises],
     [web_get |-> TRUE, wiki_get |-> FALSE, web |-> ToolRaises, wiki |-> ToolRaises],
     [web_get |-> FALSE, wiki_get |-> TRUE, web |-> ToolRaises,
      wiki |-> ToolReturns("Background article.")],
     [web_get |-> TRUE, wiki_get |-> FALSE, web |-> ToolReturns("Qubits use superposition."),
      wiki |-> ToolRaises]}
    \cup {[web_get |-> TRUE, wiki_get |-> TRUE, web |-> w, wiki |-> k] :
            w \in WebOutcomes, k \in WikiOutcomes}

\* ------------------------------------------------------------------ state

VARIABLES
    \* AnorvisState
    messages, current_agent, coordination_needed, suggested_agent,
    research_results, financial_analysis, final_response, original_query,
    \* the node (or await inside a node) the invocation is at
    pc,
    \* research_response, the local of coordinate_agents
    research_response,
    \* what _anorvis returned
    result,
    \* the position at which an exception escaped the invocation, "" while none
    raised_at,
    \* the event loop's tasks: the number of the invocation whose frame the
    \* variables above hold, and the frames of the suspended invocations
    tasks,
    \* history: worker invocations <<[worker, query]>>, in order
    calls,
    \* history: completed Backrub runs <<[query, analysis, tools, response]>>
    backrub_runs,
    \* history: capability calls <<[by, input]>>, in order
    llm_calls,
    \* history: content of the most recent capability response
    llm_content,
    \* history: number of assignments to each result field of the state
    writes

state_vars ==
    <<messages, current_agent, coordination_needed, suggested_agent,
      research_results, financial_analysis, final_response, original_query>>

vars ==
    <<messages, current_agent, coordination_needed, suggested_agent,
      research_results, financial_analysis, final_response, original_query,
      pc, research_response, result, raised_at, tasks, calls, backrub_runs,
      llm_calls, llm_content, writes>>

HumanMessage(content) == [type |-> "human", content |-> content]

AIMessage(content) == [type |-> "ai", content |-> content]

\* state["messages"][-1].content
LastContent == messages[Len(messages)].content

Wrote(field) == [writes EXCEPT ![field] = @ + 1]

\* initial_state of _anorvis, for a query
Init ==
    \E query \in Queries :
        /\ messages = <<HumanMessage(query)>>
        /\ current_agent = ""
        /\ coordination_needed = FALSE
        /\ suggested_agent = ""
        /\ research_results = ""
        /\ financial_analysis = ""
        /\ final_response = ""
        /\ original_query = query
        /\ pc = "classify"
        /\ research_response = ""
        /\ result = ""
        /\ raised_at = ""
        /\ tasks = [running |-> 1, suspended |-> <<>>]
        /\ calls = <<>>
        /\ backrub_runs = <<>>
        /\ llm_calls = <<>>
        /\ llm_content = ""
        /\ writes = [f \in {"current_agent", "research_results",
                            "financial_analysis", "final_response"} |-> 0]

\* ---------------------------------------------------------------- actions

\* classify_query with the capability's answer drawn from outputs: the answer
\* is cleaned up and mapped
ClassifyQuery(outputs) ==
    /\ pc = "classify"
    /\ \E content \in outputs :
        /\ llm_calls' = Append(llm_calls, [by |-> "classify", input |-> LastContent])
        /\ llm_content' = content
        /\ current_agent' = AgentFor(Classification(content))
    /\ writes' = Wrote("current_agent")
    /\ pc' = "route_decision"
    /\ UNCHANGED <<messages, coordination_needed, suggested_agent, research_results,
                   financial_analysis, final_response, original_query,
                   research_response, result, tasks, raised_at, calls, backrub_runs>>

\* classify_query
classify_query == ClassifyQuery(ClassifierOutputs)

\* Mutant of route_decision: the router stores the path key it returns as the
\* route label
route_decision_Relabels ==
    /\ pc = "route_decision"
    /\ pc' = EdgeTarget(RouteDecision(current_agent))
    /\ current_agent' = RouteDecision(current_agent)
    /\ writes' = Wrote("current_agent")
    /\ UNCHANGED <<messages, coordination_needed, suggested_agent, research_results,
                   financial_analysis, final_response, original_query,
                   research_response, result, tasks, raised_at, calls, backrub_runs,
                   llm_calls, llm_content>>

\* Mutant of route_decision: a state whose coordination flag is set is sent
\* down the coordinate path whatever its label
route_decision_ByFlag ==
    /\ pc = "route_decision"
    /\ pc' = IF coordination_needed THEN "coordinate_agents"
             ELSE EdgeTarget(RouteDecision(current_agent))
    /\ UNCHANGED <<state_vars, research_response, result, tasks, raised_at, calls, backrub_runs,
                   llm_calls, llm_content, writes>>

\* route_decision and the conditional edge out of classify
route_decision ==
    /\ pc = "route_decision"
    /\ pc' = EdgeTarget(RouteDecision(current_agent))
    /\ UNCHANGED <<state_vars, research_response, result, tasks, raised_at, calls, backrub_runs,
                   llm_calls, llm_content, writes>>

\* A worker is invoked with a query; the node awaits its return
Invoke(worker, query, await) ==
    /\ calls' = Append(calls, [worker |-> worker, query |-> query])
    /\ pc' = await

\* One run of _backrub(query): its capability call and the run's record
BackrubRuns(query, analysis, tools) ==
    /\ llm_calls' = Append(llm_calls, [by |-> "backrub.analysis", input |-> query])
    /\ llm_content' = analysis
    /\ backrub_runs' = Append(backrub_runs,
            [query |-> query, analysis |-> analysis, tools |-> tools,
             response |-> Backrub(query, analysis, tools)])

\* A run of _backrub(query) that an escaping exception ends: the exception
\* passes through the awaiting node, app.ainvoke and _anorvis. get_tool comes
\* before the capability call, and the tools' ainvoke after it
BackrubFails(query, analysis, tools) ==
    /\ IF ToolsObtained(tools)
       THEN /\ llm_calls' = Append(llm_calls, [by |-> "backrub.analysis", input |-> query])
            /\ llm_content' = analysis
       ELSE UNCHANGED <<llm_calls, llm_content>>
    /\ raised_at' = "backrub.tools"
    /\ pc' = "failed"
    /\ UNCHANGED <<state_vars, research_response, result, tasks, calls, backrub_runs, writes>>

\* One run of _warren(query): its capability calls
WarrenRuns(query, analysis, advice) ==
    /\ llm_calls' = llm_calls \o WarrenCalls(query, analysis)
    /\ llm_content' = IF Len(WarrenCalls(query, analysis)) = 1
                         /\ ~IsFinalAnalysisCall(query)
                      THEN analysis ELSE advice

\* The query of the worker invocation being awaited
AwaitedQuery == calls[Len(calls)].query

\* route_to_backrub up to its await of backrub.ainvoke(query)
route_to_backrub ==
    /\ pc = "route_to_backrub"
    /\ Invoke("backrub", LastContent, "route_to_backrub.await")
    /\ UNCHANGED <<state_vars, research_response, result, tasks, raised_at, backrub_runs,
                   llm_calls, llm_content, writes>>

\* route_to_backrub from the return of Backrub to the end of the node
RouteToBackrubResume(analyses, envs) ==
    /\ pc = "route_to_backrub.await"
    /\ \E analysis \in analyses, tools \in envs :
        IF BackrubEscapes(tools)
        THEN BackrubFails(AwaitedQuery, analysis, tools)
        ELSE LET response == Backrub(AwaitedQuery, analysis, tools)
             IN  /\ BackrubRuns(AwaitedQuery, analysis, tools)
                 /\ IF BackrubSuggestsCoordination(response)
                    THEN coordination_needed' = TRUE /\ suggested_agent' = "warren"
                    ELSE UNCHANGED <<coordination_needed, suggested_agent>>
                 /\ research_results' = response
                 /\ messages' = Append(messages, AIMessage("Backrub response: " \o response))
                 /\ writes' = Wrote("research_results")
                 /\ pc' = "finalize_response"
                 /\ UNCHANGED <<current_agent, financial_analysis, final_response,
                                original_query, research_response, result, tasks, raised_at, calls>>

\* route_to_backrub_resume with every answer the model draws
route_to_backrub_resume == RouteToBackrubResume(BackrubAnalysisOutputs, ToolEnvs)

\* route_to_warren up to its await of warren.ainvoke(query)
route_to_warren ==
    /\ pc = "route_to_warren"
    /\ Invoke("warren", LastContent, "route_to_warren.await")
    /\ UNCHANGED <<state_vars, research_response, result, tasks, raised_at, backrub_runs,
                   llm_calls, llm_content, writes>>

\* Mutant of route_to_warren_resume: when Warren suggests coordination the
\* request is handed over to the research handler
route_to_warren_resume_HandsOver ==
    /\ pc = "route_to_warren.await"
    /\ \E analysis \in WarrenAnalysisOutputs, advice \in AdviceOutputs :
        LET response == Warren(AwaitedQuery, analysis, advice)
        IN  /\ WarrenRuns(AwaitedQuery, analysis, advice)
            /\ IF WarrenSuggestsCoordination(response)
               THEN /\ coordination_needed' = TRUE /\ suggested_agent' = "backrub"
                    /\ pc' = "route_to_backrub"
               ELSE /\ UNCHANGED <<coordination_needed, suggested_agent>>
                    /\ pc' = "finalize_response"
            /\ financial_analysis' = response
            /\ messages' = Append(messages, AIMessage("Warren response: " \o response))
    /\ writes' = Wrote("financial_analysis")
    /\ UNCHANGED <<current_agent, research_results, final_response, original_query,
                   research_response, result, tasks, raised_at, calls, backrub_runs>>

\* Mutant of RouteToWarrenResume: Warren's response is also stored as research
RouteToWarrenResume_AlsoResearch(analyses, advices) ==
    /\ pc = "route_to_warren.await"
    /\ \E analysis \in analyses, advice \in advices :
        LET response == Warren(AwaitedQuery, analysis, advice)
        IN  /\ WarrenRuns(AwaitedQuery, analysis, advice)
            /\ IF WarrenSuggestsCoordination(response)
               THEN coordination_needed' = TRUE /\ suggested_agent' = "backrub"
               ELSE UNCHANGED <<coordination_needed, suggested_agent>>
            /\ financial_analysis' = response
            /\ research_results' = response
            /\ messages' = Append(messages, AIMessage("Warren response: " \o response))
    /\ writes' = Wrote("financial_analysis")
    /\ pc' = "finalize_response"
    /\ UNCHANGED <<current_agent, final_response, original_query,
                   research_response, result, tasks, raised_at, calls, backrub_runs>>

\* route_to_warren from the return of Warren to the end of the node
RouteToWarrenResume(analyses, advices) ==
    /\ pc = "route_to_warren.await"
    /\ \E analysis \in analyses, advice \in advices :
        LET response == Warren(AwaitedQuery, analysis, advice)
        IN  /\ WarrenRuns(AwaitedQuery, analysis, advice)
            /\ IF WarrenSuggestsCoordination(response)
               THEN coordination_needed' = TRUE /\ suggested_agent' = "backrub"
               ELSE UNCHANGED <<coordination_needed, suggested_agent>>
            /\ financial_analysis' = response
            /\ messages' = Append(messages, AIMessage("Warren response: " \o response))
    /\ writes' = Wrote("financial_analysis")
    /\ pc' = "finalize_response"
    /\ UNCHANGED <<current_agent, research_results, final_response, original_query,
                   research_response, result, tasks, raised_at, calls, backrub_runs>>

\* route_to_warren_resume with every answer the model draws
route_to_warren_resume == RouteToWarrenResume(WarrenAnalysisOutputs, AdviceOutputs)

\* coordinate_agents up to its await of backrub.ainvoke(original_query)
coordinate_agents ==
    /\ pc = "coordinate_agents"
    /\ Invoke("backrub", original_query, "coordinate_agents.await_backrub")
    /\ UNCHANGED <<state_vars, research_response, result, tasks, raised_at, backrub_runs,
                   llm_calls, llm_content, writes>>

\* Mutant of coordinate_agents_research: the research text is stored in the
\* state as soon as Backrub returns, before the referral check
coordinate_agents_research_Records ==
    /\ pc = "coordinate_agents.await_backrub"
    /\ \E analysis \in BackrubAnalysisOutputs, tools \in ToolEnvs :
        LET response == Backrub(AwaitedQuery, analysis, tools)
        IN  /\ ~BackrubEscapes(tools)
            /\ BackrubRuns(AwaitedQuery, analysis, tools)
            /\ research_response' = response
            /\ research_results' = response
            /\ IF SuggestsFinancialAnalysis(response)
               THEN /\ Invoke("warren", original_query,
                              "coordinate_agents.await_warren")
                    /\ writes' = Wrote("research_results")
                    /\ UNCHANGED <<messages, financial_analysis>>
               ELSE /\ financial_analysis' = ""
                    /\ messages' = Append(messages,
                             AIMessage("Research-only coordination completed"))
                    /\ writes' = [writes EXCEPT !["research_results"] = @ + 1,
                                                !["financial_analysis"] = @ + 1]
                    /\ pc' = "finalize_response"
                    /\ UNCHANGED calls
    /\ UNCHANGED <<current_agent, coordination_needed, suggested_agent,
                   final_response, original_query, result, tasks, raised_at>>

\* coordinate_agents from the return of Backrub: either up to its await of
\* warren.ainvoke(original_query), or through the research-only branch to the
\* end of the node
CoordinateAgentsResearch(analyses, envs) ==
    /\ pc = "coordinate_agents.await_backrub"
    /\ \E analysis \in analyses, tools \in envs :
        IF BackrubEscapes(tools)
        THEN BackrubFails(AwaitedQuery, analysis, tools)
        ELSE LET response == Backrub(AwaitedQuery, analysis, tools)
             IN  /\ BackrubRuns(AwaitedQuery, analysis, tools)
                 /\ research_response' = response
                 /\ IF SuggestsFinancialAnalysis(response)
                    THEN /\ Invoke("warren", original_query,
                                   "coordinate_agents.await_warren")
                         /\ UNCHANGED <<messages, research_results, financial_analysis,
                                        writes>>
                    ELSE /\ research_results' = response
                         /\ financial_analysis' = ""
                         /\ messages' = Append(messages,
                                  AIMessage("Research-only coordination completed"))
                         /\ writes' = [writes EXCEPT !["research_results"] = @ + 1,
                                                     !["financial_analysis"] = @ + 1]
                         /\ pc' = "finalize_response"
                         /\ UNCHANGED calls
                 /\ UNCHANGED <<current_agent, coordination_needed, suggested_agent,
                                final_response, original_query, result, tasks, raised_at>>

\* coordinate_agents_research with every answer the model draws
coordinate_agents_research == CoordinateAgentsResearch(BackrubAnalysisOutputs, ToolEnvs)

\* Mutant of coordinate_agents_warren: the text of Warren's first run is stored
\* as the financial analysis before the final analysis is asked for
coordinate_agents_warren_Stores ==
    /\ pc = "coordinate_agents.await_warren"
    /\ \E analysis \in WarrenAnalysisOutputs, advice \in AdviceOutputs :
        /\ WarrenRuns(AwaitedQuery, analysis, advice)
        /\ financial_analysis' = Warren(AwaitedQuery, analysis, advice)
    /\ writes' = Wrote("financial_analysis")
    /\ Invoke("warren", FinalAnalysisPrompt(original_query, research_response),
              "coordinate_agents.await_final_analysis")
    /\ UNCHANGED <<messages, current_agent, coordination_needed, suggested_agent,
                   research_results, final_response, original_query,
                   research_response, result, tasks, raised_at, backrub_runs>>

\* coordinate_agents from the return of Warren's first run (its text is only
\* measured for the log) up to its await of warren.ainvoke(final_analysis_prompt)
CoordinateAgentsWarren(analyses, advices) ==
    /\ pc = "coordinate_agents.await_warren"
    /\ \E analysis \in analyses, advice \in advices :
        WarrenRuns(AwaitedQuery, analysis, advice)
    /\ Invoke("warren", FinalAnalysisPrompt(original_query, research_response),
              "coordinate_agents.await_final_analysis")
    /\ UNCHANGED <<state_vars, research_response, result, tasks, raised_at, backrub_runs, writes>>

\* coordinate_agents_warren with every answer the model draws
coordinate_agents_warren == CoordinateAgentsWarren(WarrenAnalysisOutputs, AdviceOutputs)

\* Mutant of coordinate_agents_final: a final analysis that names Backrub sends
\* the coordination back to the research step
coordinate_agents_final_Reinvokes ==
    /\ pc = "coordinate_agents.await_final_analysis"
    /\ \E analysis \in WarrenAnalysisOutputs, advice \in AdviceOutputs :
        LET response == Warren(AwaitedQuery, analysis, advice)
        IN  /\ WarrenRuns(AwaitedQuery, analysis, advice)
            /\ IF Contains(Lower(response), "backrub")
               THEN /\ pc' = "coordinate_agents"
                    /\ UNCHANGED <<messages, research_results, financial_analysis, writes>>
               ELSE /\ financial_analysis' = response
                    /\ research_results' = research_response
                    /\ messages' = Append(messages, AIMessage("Full coordination completed"))
                    /\ writes' = [writes EXCEPT !["research_results"] = @ + 1,
                                                !["financial_analysis"] = @ + 1]
                    /\ pc' = "finalize_response"
    /\ UNCHANGED <<current_agent, coordination_needed, suggested_agent, final_response,
                   original_query, research_response, result, tasks, raised_at, calls,
                   backrub_runs>>

\* coordinate_agents from the return of Warren's final analysis to the end of
\* the node
CoordinateAgentsFinal(analyses, advices) ==
    /\ pc = "coordinate_agents.await_final_analysis"
    /\ \E analysis \in analyses, advice \in advices :
        /\ WarrenRuns(AwaitedQuery, analysis, advice)
        /\ financial_analysis' = Warren(AwaitedQuery, analysis, advice)
    /\ research_results' = research_response
    /\ messages' = Append(messages, AIMessage("Full coordination completed"))
    /\ writes' = [writes EXCEPT !["research_results"] = @ + 1,
                                !["financial_analysis"] = @ + 1]
    /\ pc' = "finalize_response"
    /\ UNCHANGED <<current_agent, coordination_needed, suggested_agent, final_response,
                   original_query, research_response, result, tasks, raised_at, calls, backrub_runs>>

\* coordinate_agents_final with every answer the model draws
coordinate_agents_final == CoordinateAgentsFinal(WarrenAnalysisOutputs, AdviceOutputs)

\* Mutant of handle_general: the answer is logged but not stored in final_response
handle_general_NotStored ==
    /\ pc = "handle_general"
    /\ \E content \in GeneralOutputs :
        /\ llm_calls' = Append(llm_calls, [by |-> "general", input |-> LastContent])
        /\ llm_content' = content
        /\ messages' = Append(messages, AIMessage(content))
    /\ pc' = "finalize_response"
    /\ UNCHANGED <<current_agent, coordination_needed, suggested_agent, research_results,
                   financial_analysis, final_response, original_query, research_response,
                   result, tasks, raised_at, calls, backrub_runs, writes>>

\* handle_general: the capability answers the query directly
HandleGeneral(outputs) ==
    /\ pc = "handle_general"
    /\ \E content \in outputs :
        /\ llm_calls' = Append(llm_calls, [by |-> "general", input |-> LastContent])
        /\ llm_content' = content
        /\ final_response' = content
        /\ messages' = Append(messages, AIMessage(content))
    /\ writes' = Wrote("final_response")
    /\ pc' = "finalize_response"
    /\ UNCHANGED <<current_agent, coordination_needed, suggested_agent, research_results,
                   financial_analysis, original_query, research_response, result, tasks, raised_at,
                   calls, backrub_runs>>

\* handle_general with every answer the model draws
handle_general == HandleGeneral(GeneralOutputs)

\* finalize_response; the summary branch alone calls the capability
FinalizeResponse(summaries) ==
    /\ pc = "finalize_response"
    /\ LET branch == FinalizeBranch(current_agent, research_results,
                                    financial_analysis, final_response)
       IN  IF branch = "summary"
           THEN \E summary \in summaries :
                   /\ llm_calls' = Append(llm_calls,
                          [by |-> "finalize",
                           input |-> SummaryPrompt(research_results, financial_analysis)])
                   /\ llm_content' = summary
                   /\ final_response' = Finalized(branch, research_results,
                                          financial_analysis, final_response, summary)
                   /\ writes' = Wrote("final_response")
           ELSE /\ final_response' = Finalized(branch, research_results,
                                        financial_analysis, final_response, "")
                /\ writes' = IF branch = "pass" THEN writes ELSE Wrote("final_response")
                /\ UNCHANGED <<llm_calls, llm_content>>
    /\ pc' = "END"
    /\ UNCHANGED <<messages, current_agent, coordination_needed, suggested_agent,
                   research_results, financial_analysis, original_query,
                   research_response, result, tasks, raised_at, calls, backrub_runs>>

\* finalize_response with every answer the model draws
finalize_response == FinalizeResponse(SummaryOutputs)

\* The positions at which the invocation awaits the capability, directly or
\* inside a worker
AwaitsCapability ==
    \/ pc \in {"classify", "handle_general", "route_to_backrub.await",
               "route_to_warren.await", "coordinate_agents.await_backrub",
               "coordinate_agents.await_warren",
               "coordinate_agents.await_final_analysis"}
    \/ /\ pc = "finalize_response"
       /\ FinalizeBranch(current_agent, research_results, financial_analysis,
                         final_response) = "summary"

\* Mutant of capability_error: a failed classification is caught and the
\* request is answered as a general one
capability_error_ClassifyDefaults ==
    /\ AwaitsCapability
    /\ raised_at' = pc
    /\ IF pc = "classify"
       THEN /\ current_agent' = "general"
            /\ writes' = Wrote("current_agent")
            /\ pc' = "route_decision"
       ELSE /\ pc' = "failed"
            /\ UNCHANGED <<current_agent, writes>>
    /\ UNCHANGED <<messages, coordination_needed, suggested_agent, research_results,
                   financial_analysis, final_response, original_query,
                   research_response, result, tasks, calls, backrub_runs, llm_calls,
                   llm_content>>

\* Mutant of capability_error: a failed summarization is caught and the
\* fallback apology is returned
capability_error_FinalizeFallback ==
    /\ AwaitsCapability
    /\ raised_at' = pc
    /\ IF pc = "finalize_response"
       THEN /\ final_response' = FallbackText
            /\ writes' = Wrote("final_response")
            /\ pc' = "END"
       ELSE /\ pc' = "failed"
            /\ UNCHANGED <<final_response, writes>>
    /\ UNCHANGED <<messages, current_agent, coordination_needed, suggested_agent,
                   research_results, financial_analysis, original_query,
                   research_response, result, tasks, calls, backrub_runs, llm_calls,
                   llm_content>>

\* llm.ainvoke raises: nothing catches it, app.ainvoke and _anorvis raise
capability_error ==
    /\ AwaitsCapability
    /\ pc' = "failed"
    /\ raised_at' = pc
    /\ UNCHANGED <<state_vars, research_response, result, tasks, calls, backrub_runs,
                   llm_calls, llm_content, writes>>

\* _anorvis returns final_state["final_response"]
return_final_response ==
    /\ pc = "END"
    /\ result' = final_response
    /\ pc' = "done"
    /\ UNCHANGED <<state_vars, research_response, raised_at, tasks, calls, backrub_runs,
                   llm_calls, llm_content, writes>>

Next ==
    \/ classify_query
    \/ route_decision
    \/ route_to_backrub
    \/ route_to_backrub_resume
    \/ route_to_warren
    \/ route_to_warren_resume
    \/ coordinate_agents
    \/ coordinate_agents_research
    \/ coordinate_agents_warren
    \/ coordinate_agents_final
    \/ handle_general
    \/ finalize_response
    \/ capability_error
    \/ return_final_response

Spec == Init /\ [][Next]_vars

\* classify_query with the capability's answer drawn exhaustively over the pieces
classify_pieces == ClassifyQuery(ClassifierPieceOutputs)

NextClassify == classify_pieces

\* The Classifier alone, on every answer over the pieces
SpecClassify == Init /\ [][NextClassify]_vars

\* route_decision as a function of an AnorvisState: the states it is applied to
\* are drawn with every label classify_query can store and with every value of
\* the fields coordination_needed and suggested_agent
InitRouter ==
    \E query \in Queries, content \in ClassifierTokens,
       needed \in BOOLEAN, suggested \in {"", "warren", "backrub"} :
        /\ messages = <<HumanMessage(query)>>
        /\ current_agent = AgentFor(Classification(content))
        /\ coordination_needed = needed
        /\ suggested_agent = suggested
        /\ research_results = ""
        /\ financial_analysis = ""
        /\ final_response = ""
        /\ original_query = query
        /\ pc = "route_decision"
        /\ research_response = ""
        /\ result = ""
        /\ raised_at = ""
        /\ tasks = [running |-> 1, suspended |-> <<>>]
        /\ calls = <<>>
        /\ backrub_runs = <<>>
        /\ llm_calls = <<[by |-> "classify", input |-> query]>>
        /\ llm_content = content
        /\ writes = [f \in {"current_agent", "research_results",
                            "financial_analysis", "final_response"} |->
                        IF f = "current_agent" THEN 1 ELSE 0]

NextRouter == route_decision

SpecRouter == InitRouter /\ [][NextRouter]_vars

\* The frame of the invocation the variables hold: its AnorvisState, its
\* position, its locals and its history
Frame ==
    [messages |-> messages, current_agent |-> current_agent,
     coordination_needed |-> coordination_needed, suggested_agent |-> suggested_agent,
     research_results |-> research_results, financial_analysis |-> financial_analysis,
     final_response |-> final_response, original_query |-> original_query,
     pc |-> pc, research_response |-> research_response, result |-> result,
     raised_at |-> raised_at, calls |-> calls, backrub_runs |-> backrub_runs,
     llm_calls |-> llm_calls, llm_content |-> llm_content, writes |-> writes]

\* The frame of _anorvis(query) at its start: initial_state and nothing done
InitialFrame(query) ==
    [messages |-> <<HumanMessage(query)>>, current_agent |-> "",
     coordination_needed |-> FALSE, suggested_agent |-> "",
     research_results |-> "", financial_analysis |-> "",
     final_response |-> "", original_query |-> query,
     pc |-> "classify", research_response |-> "", result |-> "",
     raised_at |-> "", calls |-> <<>>, backrub_runs |-> <<>>,
     llm_calls |-> <<>>, llm_content |-> "",
     writes |-> [f \in {"current_agent", "research_results",
                        "financial_analysis", "final_response"} |-> 0]]

\* The queries of the concurrent invocations, one each
PairQueries ==
    <<"What is quantum computing?", "What stocks should I buy right now?",
      "Who is Warren Buffett?">>

\* The variables hold frame f
Holds(f) ==
    /\ messages = f.messages
    /\ current_agent = f.current_agent
    /\ coordination_needed = f.coordination_needed
    /\ suggested_agent = f.suggested_agent
    /\ research_results = f.research_results
    /\ financial_analysis = f.financial_analysis
    /\ final_response = f.final_response
    /\ original_query = f.original_query
    /\ pc = f.pc
    /\ research_response = f.research_response
    /\ result = f.result
    /\ raised_at = f.raised_at
    /\ calls = f.calls
    /\ backrub_runs = f.backrub_runs
    /\ llm_calls = f.llm_calls
    /\ llm_content = f.llm_content
    /\ writes = f.writes

\* The variables hold frame f after the step
Resumed(f) ==
    /\ messages' = f.messages
    /\ current_agent' = f.current_agent
    /\ coordination_needed' = f.coordination_needed
    /\ suggested_agent' = f.suggested_agent
    /\ research_results' = f.research_results
    /\ financial_analysis' = f.financial_analysis
    /\ final_response' = f.final_response
    /\ original_query' = f.original_query
    /\ pc' = f.pc
    /\ research_response' = f.research_response
    /\ result' = f.result
    /\ raised_at' = f.raised_at
    /\ calls' = f.calls
    /\ backrub_runs' = f.backrub_runs
    /\ llm_calls' = f.llm_calls
    /\ llm_content' = f.llm_content
    /\ writes' = f.writes

\* The suspended frames once invocation id runs instead of the running one
Suspend(id) ==
    [j \in (DOMAIN tasks.suspended \ {id}) \cup {tasks.running} |->
        IF j = tasks.running THEN Frame ELSE tasks.suspended[j]]

\* Mutant of switch: research_results is one name shared by all invocations, not
\* a key of each invocation's own state
switch_SharedResults ==
    \E id \in DOMAIN tasks.suspended :
        LET f == tasks.suspended[id]
        IN  /\ messages' = f.messages
            /\ current_agent' = f.current_agent
            /\ coordination_needed' = f.coordination_needed
            /\ suggested_agent' = f.suggested_agent
            /\ UNCHANGED research_results
            /\ financial_analysis' = f.financial_analysis
            /\ final_response' = f.final_response
            /\ original_query' = f.original_query
            /\ pc' = f.pc
            /\ research_response' = f.research_response
            /\ result' = f.result
            /\ raised_at' = f.raised_at
            /\ calls' = f.calls
            /\ backrub_runs' = f.backrub_runs
            /\ llm_calls' = f.llm_calls
            /\ llm_content' = f.llm_content
            /\ writes' = f.writes
            /\ tasks' = [running |-> id, suspended |-> Suspend(id)]

\* The event loop suspends the running invocation where it stands and resumes
\* another one: every name an invocation assigns is a local of its own call
\* of _anorvis or a key of its own state dict
switch ==
    \E id \in DOMAIN tasks.suspended :
        /\ Resumed(tasks.suspended[id])
        /\ tasks' = [running |-> id, suspended |-> Suspend(id)]

\* What the capability answers in the concurrent invocations, by the call
PairAnswers(by) ==
    CASE by = "classify" -> {"coordinate", "backrub", "Classification: warren", "general"}
      [] by = "backrub.analysis" -> {"financial"}
      [] by = "warren.analysis" -> {"general"}
      [] by = "warren.advice" -> {"Buy a broad index fund and hold it."}
      [] by = "finalize" ->
            {"Hey! I looked into that for you... Do your own research too!"}
      [] by = "general" -> {"Hello! I route research and finance questions."}

\* The lookup tools of the concurrent invocations
PairToolEnvs ==
    {[web_get |-> TRUE, wiki_get |-> TRUE,
      web |-> ToolReturns("Qubits use superposition."), wiki |-> ToolRaises]}

\* Invocations concurrent invocations of _anorvis, the first one running
InitPair ==
    /\ Holds(InitialFrame(PairQueries[1]))
    /\ tasks = [running |-> 1,
                suspended |-> [j \in 2..Invocations |-> InitialFrame(PairQueries[j])]]

\* A step of the running invocation, or the event loop switching
NextPair ==
    \/ ClassifyQuery(PairAnswers("classify"))
    \/ route_decision
    \/ route_to_backrub
    \/ RouteToBackrubResume(PairAnswers("backrub.analysis"), PairToolEnvs)
    \/ route_to_warren
    \/ RouteToWarrenResume(PairAnswers("warren.analysis"), PairAnswers("warren.advice"))
    \/ coordinate_agents
    \/ CoordinateAgentsResearch(PairAnswers("backrub.analysis"), PairToolEnvs)
    \/ CoordinateAgentsWarren(PairAnswers("warren.analysis"),
                              PairAnswers("warren.advice"))
    \/ CoordinateAgentsFinal(PairAnswers("warren.analysis"),
                             PairAnswers("warren.advice"))
    \/ HandleGeneral(PairAnswers("general"))
    \/ FinalizeResponse(PairAnswers("finalize"))
    \/ capability_error
    \/ return_final_response
    \/ switch

\* Concurrent invocations, interleaved at every position
SpecPair == InitPair /\ [][NextPair]_vars

TypeOK ==
    /\ current_agent \in {"", "coordinator", "backrub", "warren", "general"}
    /\ coordination_needed \in BOOLEAN
    /\ suggested_agent \in {"", "warren", "backrub"}
    /\ original_query \in Queries
    /\ Len(calls) <= 3

\* ------------------------------------------------- vocabulary of the claims

SpecialistTokens == {"coordinate", "backrub", "warren"}

RouteLabels == {"coordinator", "backrub", "warren", "general"}

\* A peer trigger token occurs in a research text, in any letter case
HasTriggerToken(text) ==
    Contains(Lower(text), "warren") \/ Contains(Lower(text), "financial")

\* The Research worker itself signalled a referral in a run: the capability's
\* answer to its analysis prompt named financial expertise
BackrubReferred(run) == Contains(Lower(Strip(run.analysis)), "financial")

FinanceInvoked == \E i \in 1..Len(calls) : calls[i].worker = "warren"

\* The Research worker has returned to the orchestrator
ResearchReturned == Len(backrub_runs) >= 1

\* The text the Research worker returned
ResearchText == backrub_runs[1].response

HasFinalized == pc \in {"END", "done"}

InvitationSuffix == "...\n\nWant me to get some financial advice to go with this research?\n"

\* ------------------------------------------------------------------ claims

\* C1: the route label that classify_query stores is one of coordinator, backrub,
\* warren, general; a cleaned-up token that is not exactly one of the three
\* specialist tokens (the empty string, several words, an unknown word) yields
\* general, and each specialist token yields its own label.
C1_RouteLabelClosed ==
    /\ writes["current_agent"] >= 1 => current_agent \in RouteLabels
    /\ pc = "route_decision" =>
        LET token == Classification(llm_content)
        IN  /\ token \notin SpecialistTokens => current_agent = "general"
            /\ token = "coordinate" => current_agent = "coordinator"
            /\ token = "backrub" => current_agent = "backrub"
            /\ token = "warren" => current_agent = "warren"

C1_Witness ==
    /\ pc = "route_decision"
    /\ llm_content = "Classification: 'backrub and warren'  "
    /\ current_agent = "general"

\* C2: on the coordinate path every invocation of the Finance worker is made
\* with the follow-up prompt embedding the first 1000 characters of the research
\* text, never with the raw original query.
C2_FinanceOnlyWithFollowUp ==
    current_agent = "coordinator" =>
        \A i \in 1..Len(calls) :
            calls[i].worker = "warren" =>
                /\ calls[i].query = FinalAnalysisPrompt(original_query, research_response)
                /\ calls[i].query # original_query

\* C3: on the coordinate path, when the research text holds no trigger token,
\* the Finance worker is not invoked, financial_analysis is empty when
\* coordinate_agents ends, and the final response is the research-only text.
C3_NoTriggerResearchOnly ==
    (current_agent = "coordinator" /\ ResearchReturned /\ ~HasTriggerToken(ResearchText)) =>
        /\ ~FinanceInvoked
        /\ pc \in {"finalize_response", "END", "done"} =>
                financial_analysis = "" /\ research_results = ResearchText
        /\ HasFinalized =>
                final_response = "\nHey! I found some info for you:\n\n"
                                 \o Prefix(ResearchText, 500) \o InvitationSuffix
        /\ pc = "done" => result = final_response

C3_Witness ==
    /\ pc = "done"
    /\ current_agent = "coordinator"
    /\ ~HasTriggerToken(ResearchText)
    /\ ~FinanceInvoked
    /\ Len(ResearchText) > 500
    /\ Contains(result, InvitationSuffix)

C5_ResearchOnlyOnAnyPath ==
    (HasFinalized /\ research_results # "" /\ financial_analysis = "") =>
        Contains(final_response, Prefix(research_results, 500) \o InvitationSuffix)

\* C5 amended: with research_results populated and financial_analysis empty, on
\* the coordinate path the final response is the first 500 characters of
\* research_results followed by the invitation; on the single-research path it
\* is the first 300 characters under the plain heading, without the invitation.
C5_ResearchOnlyByPath ==
    (HasFinalized /\ research_results # "" /\ financial_analysis = "") =>
        /\ current_agent = "coordinator" =>
                final_response = "\nHey! I found some info for you:\n\n"
                                 \o Prefix(research_results, 500) \o InvitationSuffix
        /\ current_agent # "coordinator" =>
                /\ final_response = "\nHey! Here's what I found:\n\n"
                                    \o Prefix(research_results, 300) \o "...\n"
                /\ ~Contains(final_response, "Want me to get some financial advice")

C5_Witness ==
    /\ pc = "done"
    /\ current_agent = "backrub"
    /\ Len(research_results) > 500
    /\ financial_analysis = ""
    /\ Len(result) = Len("\nHey! Here's what I found:\n\n") + 300 + Len("...\n")

\* C6 as stated: at most one step of an invocation assigns final_response.
C6_FinalResponseSetOnce == writes["final_response"] <= 1

\* C6 amended: on the three worker paths exactly one step, finalize_response,
\* assigns final_response; on the general path handle_general assigns it and
\* finalize_response assigns it a second time only when the direct answer was
\* empty, replacing it by the fallback apology.
C6_FinalResponseWrites ==
    /\ current_agent # "general" => writes["final_response"] <= 1
    /\ (current_agent # "general" /\ HasFinalized) => writes["final_response"] = 1
    /\ writes["final_response"] <= 2
    /\ writes["final_response"] = 2 =>
        /\ current_agent = "general"
        /\ HasFinalized
        /\ llm_content = ""
        /\ final_response = FallbackText

C6_Witness ==
    /\ pc = "done"
    /\ writes["final_response"] = 2
    /\ result = FallbackText

\* C7 as stated: on the general route no worker is invoked and the final
\* response returned equals the direct answer, for every direct-answer text.
C7_GeneralReturnsDirectAnswer ==
    (pc = "done" /\ current_agent = "general") =>
        /\ calls = <<>>
        /\ llm_calls[Len(llm_calls)].by = "general"
        /\ result = llm_content

\* C7 amended: on the general route no worker is invoked and the final response
\* returned equals the direct answer for every non-empty direct answer; an
\* empty direct answer is returned as the fallback apology.
C7_GeneralReturnsAnswerOrFallback ==
    (pc = "done" /\ current_agent = "general") =>
        /\ calls = <<>>
        /\ Len(llm_calls) = 2
        /\ llm_calls[2].by = "general"
        /\ llm_content # "" => result = llm_content
        /\ llm_content = "" => result = FallbackText

C7_Witness ==
    /\ pc = "done"
    /\ current_agent = "general"
    /\ calls = <<>>
    /\ llm_content # ""
    /\ result = llm_content

\* C8: finalize_response never overwrites a non-empty final_response written
\* by the general path: started with final_response non-empty and no worker
\* output, it ends with final_response unchanged.
C8_FinalizeKeepsGeneralAnswer ==
    [][(/\ pc = "finalize_response"
        /\ final_response # ""
        /\ research_results = ""
        /\ financial_analysis = "")
       => final_response' = final_response]_vars

C8_Witness ==
    /\ pc = "END"
    /\ current_agent = "general"
    /\ research_results = ""
    /\ financial_analysis = ""
    /\ final_response # ""
    /\ final_response = llm_content

\* C9 as stated: on the coordinate path, whenever the research text holds a
\* trigger token, the final response returned is the answer of the Finalizer's
\* summarization call, for every text the Finance worker can return.
C9_TriggerGivesSummary ==
    (pc = "done" /\ current_agent = "coordinator" /\ HasTriggerToken(ResearchText)) =>
        /\ llm_calls[Len(llm_calls)].by = "finalize"
        /\ result = llm_content

\* C9 amended: on the coordinate path, whenever the research text holds a
\* trigger token, the final response returned is the answer of the Finalizer's
\* summarization call over research_results and financial_analysis if the
\* Finance worker's final analysis is non-empty; if it is empty, the final
\* response is the research-only text and no summarization call is made.
C9_TriggerGivesSummaryIfAdvice ==
    (pc = "done" /\ current_agent = "coordinator" /\ HasTriggerToken(ResearchText)) =>
        /\ research_results = ResearchText
        /\ financial_analysis # "" =>
            /\ llm_calls[Len(llm_calls)] =
                   [by |-> "finalize",
                    input |-> SummaryPrompt(research_results, financial_analysis)]
            /\ result = llm_content
        /\ financial_analysis = "" =>
            /\ \A i \in 1..Len(llm_calls) : llm_calls[i].by # "finalize"
            /\ result = "\nHey! I found some info for you:\n\n"
                        \o Prefix(ResearchText, 500) \o InvitationSuffix

C9_Witness ==
    /\ pc = "done"
    /\ current_agent = "coordinator"
    /\ HasTriggerToken(ResearchText)
    /\ financial_analysis = LongText
    /\ llm_calls[Len(llm_calls)].by = "finalize"
    /\ result # ""
    /\ result = llm_content

\* C10: with the research label the Research worker is invoked exactly once,
\* with the original query, the Finance worker is never invoked, even when the
\* research text suggests coordination, and the final response is the
\* Finalizer's formatting of the Research worker's text.
C10_ResearchRouteOnlyResearch ==
    current_agent = "backrub" =>
        /\ ~FinanceInvoked
        /\ Len(calls) <= 1
        /\ pc \in {"route_to_backrub.await", "finalize_response", "END", "done"} =>
                calls = <<[worker |-> "backrub", query |-> original_query]>>
        /\ pc \in {"finalize_response", "END", "done"} =>
                Len(backrub_runs) = 1 /\ research_results = ResearchText
        /\ pc = "done" =>
                result = "\nHey! Here's what I found:\n\n"
                         \o Prefix(ResearchText, 300) \o "...\n"

C10_Witness ==
    /\ pc = "done"
    /\ current_agent = "backrub"
    /\ coordination_needed
    /\ suggested_agent = "warren"
    /\ calls = <<[worker |-> "backrub", query |-> original_query]>>
    /\ Contains(result, "Hey! I just looked into")

\* The positions at which the capability can raise
CapabilityStages ==
    {"classify", "handle_general", "route_to_backrub.await", "route_to_warren.await",
     "coordinate_agents.await_backrub", "coordinate_agents.await_warren",
     "coordinate_agents.await_final_analysis", "finalize_response"}

\* C11: when the capability raises during classification the invocation is
\* aborted there: no route label is stored, no worker is invoked, no General
\* direct answer and no Finalizer step is made, no capability call completes
\* and nothing is returned.
C11_ClassifyFailureAborts ==
    raised_at = "classify" =>
        /\ pc = "failed"
        /\ calls = <<>>
        /\ backrub_runs = <<>>
        /\ llm_calls = <<>>
        /\ \A f \in DOMAIN writes : writes[f] = 0
        /\ current_agent = ""
        /\ final_response = ""
        /\ result = ""

C11_Witness ==
    /\ pc = "failed"
    /\ raised_at = "classify"
    /\ messages = <<HumanMessage(original_query)>>

\* C12: at whatever stage the capability raises (classification, a worker's own
\* call, the General direct answer, a Finance call of the coordinate path, the
\* Finalizer's summarization) the invocation is in the failed state from then
\* on: no later stage runs, final_response is still empty and nothing, neither
\* a partial nor the fallback text, is returned.
C12_CapabilityFailureAborts ==
    /\ raised_at # "" <=> pc = "failed"
    /\ raised_at # "" =>
        /\ raised_at \in CapabilityStages
        /\ final_response = ""
        /\ writes["final_response"] = 0
        /\ result = ""
        /\ ~ENABLED Next

C12_Witness ==
    /\ pc = "failed"
    /\ raised_at = "finalize_response"
    /\ research_results # ""
    /\ financial_analysis # ""
    /\ Len(calls) = 3

\* C13: a lookup tool that raises, or that cannot be obtained, never fails the
\* request. For every combination of the web and wiki outcomes (text, empty,
\* raise, unavailable) the Research worker returns a text; the invocation fails
\* only where the capability raised, and on the research route, where no
\* capability call follows the worker, it goes on to the Finalizer.
C13_ToolFailureNeverFails ==
    /\ \A tools \in ToolEnvs, query \in Queries, analysis \in BackrubAnalysisOutputs :
            Len(Backrub(query, analysis, tools)) > 0
    /\ pc = "failed" => raised_at \in CapabilityStages
    /\ \A i \in 1..Len(backrub_runs) : Len(backrub_runs[i].response) > 0
    /\ current_agent = "backrub" /\ ResearchReturned =>
            /\ pc \in {"finalize_response", "END", "done"}
            /\ research_results = ResearchText
    /\ current_agent = "coordinator" /\ ResearchReturned /\ raised_at = "" =>
            pc \in {"coordinate_agents.await_warren",
                    "coordinate_agents.await_final_analysis",
                    "finalize_response", "END", "done"}

C13_Witness ==
    /\ pc = "done"
    /\ ResearchReturned
    /\ LET tools == backrub_runs[1].tools
       IN  /\ ToolsObtained(tools)
           /\ tools.web.raises
           /\ tools.wiki.raises
    /\ Len(result) > 0

\* C14: the route label is written exactly once, by the Classifier, strictly
\* before any worker is invoked or the General direct answer is asked for, and
\* no later step changes it.
C14_RouteLabelWrittenOnce ==
    [][ /\ (current_agent' # current_agent
                \/ writes'["current_agent"] # writes["current_agent"]) =>
            /\ pc = "classify"
            /\ writes["current_agent"] = 0
            /\ writes'["current_agent"] = 1
            /\ calls = <<>>
            /\ llm_calls = <<>>
        /\ (calls' # calls \/ pc = "handle_general") =>
            /\ writes["current_agent"] = 1
            /\ current_agent \in RouteLabels
            /\ llm_calls[1].by = "classify"
            /\ current_agent' = current_agent
      ]_vars

C14_Witness ==
    /\ pc = "done"
    /\ current_agent = "coordinator"
    /\ writes["current_agent"] = 1
    /\ Len(calls) = 3

\* The graph node each route label leads to
RoutePath ==
    [label \in RouteLabels |->
        CASE label = "coordinator" -> "coordinate_agents"
          [] label = "backrub" -> "route_to_backrub"
          [] label = "warren" -> "route_to_warren"
          [] label = "general" -> "handle_general"]

\* C15: route_decision is a total function of the route label alone: each of
\* the four labels leads to its own path, whatever coordination_needed and
\* suggested_agent hold, and the step changes no field of the state.
C15_RouterPureOfLabel ==
    [][ pc = "route_decision" =>
            /\ current_agent \in RouteLabels
            /\ pc' = RoutePath[current_agent]
            /\ UNCHANGED state_vars
      ]_vars

C15_Witness ==
    /\ pc = "route_to_warren"
    /\ current_agent = "warren"
    /\ coordination_needed
    /\ suggested_agent = "backrub"

\* C16: research_results and financial_analysis are each assigned at most once
\* per invocation, and a step that leaves their assignment counts alone leaves
\* their values alone.
C16_ResultsWrittenOnce ==
    [][ /\ writes'["research_results"] <= 1
        /\ writes'["financial_analysis"] <= 1
        /\ writes'["research_results"] = writes["research_results"] =>
                research_results' = research_results
        /\ writes'["financial_analysis"] = writes["financial_analysis"] =>
                financial_analysis' = financial_analysis
      ]_vars

C16_Witness ==
    /\ pc = "done"
    /\ current_agent = "coordinator"
    /\ Len(calls) = 3
    /\ writes["research_results"] = 1
    /\ writes["financial_analysis"] = 1
    /\ research_results # ""
    /\ financial_analysis # ""

RECURSIVE RefDropLeading(_, _)
\* text without its leading characters that are in chars
RefDropLeading(text, chars) ==
    IF text = "" THEN ""
    ELSE IF SubSeq(text, 1, 1) \in chars
         THEN RefDropLeading(SubSeq(text, 2, Len(text)), chars)
         ELSE text

RECURSIVE RefDropTrailing(_, _)
\* text without its trailing characters that are in chars
RefDropTrailing(text, chars) ==
    IF text = "" THEN ""
    ELSE IF SubSeq(text, Len(text), Len(text)) \in chars
         THEN RefDropTrailing(SubSeq(text, 1, Len(text) - 1), chars)
         ELSE text

RefTrim(text, chars) == RefDropTrailing(RefDropLeading(text, chars), chars)

RefBlanks == {" ", "\t", "\n", "\r", "\f"}

RefQuotesAndSpace == {"'", "\"", " "}

\* The text after the last occurrence of mark in text, text itself when mark
\* does not occur: the shortest tail that mark directly precedes
RefAfterLast(text, mark) ==
    LET Precedes(n) ==
            /\ Len(text) >= n + Len(mark)
            /\ SubSeq(text, Len(text) - n - Len(mark) + 1, Len(text) - n) = mark
        tails == {n \in 0..Len(text) : Precedes(n)}
    IN  IF tails = {} THEN text
        ELSE LET n == CHOOSE n \in tails : \A k \in tails : n <= k
             IN  SubSeq(text, Len(text) - n + 1, Len(text))

\* The reference procedure as the claim words it: trim and lower-case, keep the
\* text after the last 'classification:', keep the text after the last colon,
\* strip surrounding quote and space characters
RefNormalizeLiteral(content) ==
    LET t1 == Lower(RefTrim(content, RefBlanks))
        t2 == RefAfterLast(t1, "classification:")
        t3 == RefAfterLast(t2, ":")
    IN  RefTrim(t3, RefQuotesAndSpace)

\* The reference procedure with the whitespace trimmed again after each cut
RefNormalize(content) ==
    LET t1 == Lower(RefTrim(content, RefBlanks))
        t2 == RefTrim(RefAfterLast(t1, "classification:"), RefBlanks)
        t3 == RefTrim(RefAfterLast(t2, ":"), RefBlanks)
    IN  RefTrim(t3, RefQuotesAndSpace)

\* The exact match of the token
RefLabel(token) ==
    CASE token = "coordinate" -> "coordinator"
      [] token = "backrub" -> "backrub"
      [] token = "warren" -> "warren"
      [] OTHER -> "general"

\* C17 as stated: the label classify_query stores is the exact match of the
\* token that the reference procedure (trim and lower-case; text after the last
\* 'classification:'; text after the last colon; strip surrounding quote and
\* space characters) gives for the capability's answer.
C17_NormalizationIsLiteralReference ==
    pc = "route_decision" =>
        current_agent = RefLabel(RefNormalizeLiteral(llm_content))

\* C17, amended: the label classify_query stores is the exact match of the
\* token that the reference procedure gives when whitespace is trimmed again
\* after each of the two cuts, before the quote and space characters are
\* stripped; "Classification: 'Coordinate'  " yields coordinate.
C17_NormalizationIsReference ==
    pc = "route_decision" =>
        /\ current_agent = RefLabel(RefNormalize(llm_content))
        /\ llm_content = "Classification: 'Coordinate'  " =>
                current_agent = "coordinator"

C17_Witness ==
    /\ pc = "route_decision"
    /\ llm_content = "Classification:\nCoordinate"
    /\ current_agent = "coordinator"
    /\ RefNormalizeLiteral(llm_content) = "\ncoordinate"

\* The capability calls the Finalizer has made
FinalizerCalls == {i \in 1..Len(llm_calls) : llm_calls[i].by = "finalize"}

\* C18: when research_results and financial_analysis are both populated at
\* finalize_response, the step makes exactly one capability call, whose prompt
\* embeds the first 1000 characters of research_results and the first 800
\* characters of financial_analysis, and final_response becomes that call's
\* answer verbatim.
C18_BothGiveOneSummaryCall ==
    [][ pc = "finalize_response" /\ pc' = "END"
        /\ research_results # "" /\ financial_analysis # "" =>
            /\ FinalizerCalls = {}
            /\ Len(llm_calls') = Len(llm_calls) + 1
            /\ llm_calls'[Len(llm_calls')].by = "finalize"
            /\ Contains(llm_calls'[Len(llm_calls')].input,
                        "Research results: " \o SubSeq(research_results, 1,
                                Min(1000, Len(research_results)))
                        \o "\nFinal financial advice: "
                        \o SubSeq(financial_analysis, 1,
                                Min(800, Len(financial_analysis)))
                        \o "\n\nWrite a brief")
            /\ final_response' = llm_content'
      ]_vars

C18_Witness ==
    /\ pc = "done"
    /\ Len(research_results) > 1000
    /\ Len(financial_analysis) > 800
    /\ Cardinality(FinalizerCalls) = 1
    /\ llm_calls[Len(llm_calls)].by = "finalize"
    /\ result = llm_content
    /\ result # ""

\* C19: when financial_analysis alone is populated, the Finalizer calls the
\* capability not at all and final_response is the text attributed to the
\* financial expert, quoting the first 300 characters of financial_analysis.
C19_FinanceOnlyFormatted ==
    HasFinalized /\ research_results = "" /\ financial_analysis # "" =>
        /\ FinalizerCalls = {}
        /\ final_response =
                "\nHey! Here's what my financial expert friend had to say:\n\n"
                \o SubSeq(financial_analysis, 1, Min(300, Len(financial_analysis)))
                \o "...\n"

C19_Witness ==
    /\ pc = "done"
    /\ current_agent = "warren"
    /\ research_results = ""
    /\ Len(financial_analysis) > 300
    /\ result = final_response
    /\ Len(result) = 58 + 300 + 4

\* C20: when research_results, financial_analysis and final_response are all
\* empty at the start of finalize_response, the step makes no capability call
\* and final_response becomes the fallback apology.
C20_AllEmptyGivesFallback ==
    [][ pc = "finalize_response"
        /\ research_results = "" /\ financial_analysis = "" /\ final_response = "" =>
            /\ pc' = "END"
            /\ llm_calls' = llm_calls
            /\ final_response' =
                "Sorry, I'm having trouble with that right now. Can you try again?"
      ]_vars

C20_Witness ==
    /\ pc = "done"
    /\ current_agent = "warren"
    /\ research_results = ""
    /\ financial_analysis = ""
    /\ writes["final_response"] = 1
    /\ result = "Sorry, I'm having trouble with that right now. Can you try again?"

\* C21: in the research-only branch of finalize_response on the coordinate
\* path, a research_results of n characters gives the heading, exactly the
\* first min(n, 500) characters of research_results and the literal invitation
\* suffix, and nothing else; the step has this one outcome for its input.
C21_ResearchOnlyPrefixLength ==
    [][ pc = "finalize_response" /\ current_agent = "coordinator"
        /\ research_results # "" /\ financial_analysis = "" =>
            LET n == Len(research_results)
                kept == IF n < 500 THEN n ELSE 500
            IN  /\ final_response' =
                        "\nHey! I found some info for you:\n\n"
                        \o SubSeq(research_results, 1, kept) \o InvitationSuffix
                /\ Len(final_response') =
                        Len("\nHey! I found some info for you:\n\n") + kept
                        + Len(InvitationSuffix)
                /\ llm_calls' = llm_calls
                /\ pc' = "END"
      ]_vars

C21_Witness ==
    /\ pc = "done"
    /\ current_agent = "coordinator"
    /\ financial_analysis = ""
    /\ Len(research_results) >= 1300
    /\ Len(result) = Len("\nHey! I found some info for you:\n\n") + 500
                     + Len(InvitationSuffix)
    /\ SubSeq(result, Len(result) - Len(InvitationSuffix) + 1, Len(result))
            = InvitationSuffix

\* The frame of invocation id, running or suspended
FrameOf(id) == IF id = tasks.running THEN Frame ELSE tasks.suspended[id]

\* The queries of the invocations other than id
OtherQueries(id) == {PairQueries[j] : j \in (1..Invocations) \ {id}}

\* text comes from invocation id: it quotes its query and no other one's
OwnText(id, text) ==
    /\ Contains(text, PairQueries[id])
    /\ \A other \in OtherQueries(id) : ~Contains(text, other)

\* Everything in the frame f of invocation id comes from its own query and from
\* the answers to its own calls
FrameOwn(id, f) ==
    LET research == IF f.backrub_runs = <<>> THEN "" ELSE f.backrub_runs[1].response
    IN  /\ f.original_query = PairQueries[id]
        /\ f.messages[1].content = PairQueries[id]
        /\ \A k \in 1..Len(f.calls) : OwnText(id, f.calls[k].query)
        /\ \A k \in 1..Len(f.llm_calls) : OwnText(id, f.llm_calls[k].input)
        /\ \A k \in 1..Len(f.backrub_runs) :
                /\ f.backrub_runs[k].query = PairQueries[id]
                /\ OwnText(id, f.backrub_runs[k].response)
        /\ f.research_results \in {"", research}
        /\ f.research_response \in {"", research}
        /\ f.financial_analysis # "" =>
                \E k \in 1..Len(f.calls) : f.calls[k].worker = "warren"
        /\ f.pc = "done" =>
                /\ f.result = f.final_response
                /\ \A other \in OtherQueries(id) : ~Contains(f.result, other)
                /\ f.current_agent = "backrub" =>
                        f.result = "\nHey! Here's what I found:\n\n"
                                   \o SubSeq(research, 1, Min(300, Len(research)))
                                   \o "...\n"
                /\ f.current_agent \in {"coordinator", "general"} =>
                        f.result = f.llm_content
                /\ f.current_agent = "warren" =>
                        f.result =
                            "\nHey! Here's what my financial expert friend had to say:\n\n"
                            \o SubSeq(f.llm_content, 1, Min(300, Len(f.llm_content)))
                            \o "...\n"

\* A step of the running invocation leaves every suspended frame as it is, and
\* a switch moves whole frames and changes none
StepIsolated ==
    /\ tasks'.running = tasks.running => tasks'.suspended = tasks.suspended
    /\ tasks'.running # tasks.running =>
            /\ Frame' = tasks.suspended[tasks'.running]
            /\ tasks'.suspended[tasks.running] = Frame
            /\ \A j \in DOMAIN tasks.suspended \ {tasks'.running} :
                    tasks'.suspended[j] = tasks.suspended[j]

\* C22: with the invocations interleaved at every position, the state of an
\* invocation is read and written by its own steps alone, and what an
\* invocation returns depends on its own query and on the answers to its own
\* capability, worker and tool calls alone.
C22_InvocationsIndependent ==
    /\ [](\A id \in 1..Invocations : FrameOwn(id, FrameOf(id)))
    /\ [][StepIsolated]_vars

C22_Witness ==
    /\ tasks.running = 2
    /\ pc = "done"
    /\ current_agent = "coordinator"
    /\ Len(calls) = 3
    /\ tasks.suspended[1].pc = "done"
    /\ tasks.suspended[1].current_agent = "backrub"
    /\ Contains(tasks.suspended[1].result, PairQueries[1])
    /\ Len(tasks.suspended[1].calls) = 1

\* A lookup tool is of no use in a run: get_tool raised for it, or its ainvoke
\* raised
WebFails(tools) == ~tools.web_get \/ tools.web.raises

WikiFails(tools) == ~tools.wiki_get \/ tools.wiki.raises

\* C23: each lookup tool is guarded independently: in a run of the Research
\* worker in which exactly one of the two tools cannot be obtained or raises,
\* the non-empty output of the other tool appears in the worker's result.
C23_ToolsGuardedIndependently ==
    \A i \in 1..Len(backrub_runs) :
        LET tools == backrub_runs[i].tools
            response == backrub_runs[i].response
        IN  /\ (WikiFails(tools) /\ tools.web_get /\ ~tools.web.raises
                    /\ tools.web.text # "") =>
                    Contains(response, "**Current Web Search Results:**\n" \o tools.web.text)
            /\ (WebFails(tools) /\ tools.wiki_get /\ ~tools.wiki.raises
                    /\ tools.wiki.text # "") =>
                    Contains(response, "**Wikipedia Background:**\n" \o tools.wiki.text)

\* No lookup tool produced output in a run: each was not obtained, raised or
\* returned an empty text
NoToolOutput(tools) ==
    /\ WebFails(tools) \/ tools.web.text = ""
    /\ WikiFails(tools) \/ tools.wiki.text = ""

\* C24: when no lookup tool produced output, the Research worker's result is a
\* direct answer to the query that the capability gave, not a fixed text: it
\* is not the sentence saying that nothing was found.
C24_NoToolOutputGivesDirectAnswer ==
    \A i \in 1..Len(backrub_runs) :
        NoToolOutput(backrub_runs[i].tools) =>
            ~Contains(backrub_runs[i].response,
                      "Hey! I tried to look into '" \o backrub_runs[i].query
                      \o "' for you, but I couldn't find much current info.")

\* The invocations of the Research worker
ResearchCalls == {k \in 1..Len(calls) : calls[k].worker = "backrub"}

\* C25: on the coordinate path the worker calls are sequential: the Research
\* worker is invoked first, with the original query, and has returned before a
\* Finance invocation starts; it is invoked exactly once, whatever the Finance
\* worker's texts say.
C25_ResearchFirstAndOnce ==
    current_agent = "coordinator" =>
        /\ calls # <<>> => calls[1] = [worker |-> "backrub", query |-> original_query]
        /\ Cardinality(ResearchCalls) <= 1
        /\ Len(backrub_runs) <= 1
        /\ FinanceInvoked => ResearchReturned
        /\ pc = "coordinate_agents.await_backrub" => Len(calls) = 1 /\ ~ResearchReturned
        /\ pc \in {"finalize_response", "END", "done"} =>
                Cardinality(ResearchCalls) = 1 /\ ResearchReturned

C25_Witness ==
    /\ pc = "done"
    /\ current_agent = "coordinator"
    /\ Len(calls) = 3
    /\ ResearchCalls = {1}
    /\ financial_analysis = "Ask Backrub for current data first."

\* A Finance invocation of the coordinate path is in progress
FinanceInProgress ==
    pc \in {"coordinate_agents.await_warren", "coordinate_agents.await_final_analysis"}

\* C26 as stated: on the coordinate path research_results is recorded in the
\* state before any Finance invocation begins: whenever a Finance invocation is
\* in progress, research_results holds the Research worker's text.
C26_ResearchRecordedFirst ==
    (current_agent = "coordinator" /\ FinanceInProgress) =>
        research_results = ResearchText

\* C26, amended: on the coordinate path the Research worker's text is held in
\* the Coordinator's local research_response from the worker's return on;
\* research_results is assigned at the end of the Coordinator step, after the
\* referral check and, with the trigger present, after both Finance
\* invocations returned. While a Finance invocation is in progress, and after
\* a capability failure during one, research_results is still empty.
C26_ResearchRecordedLast ==
    (current_agent = "coordinator" /\ ResearchReturned) =>
        /\ research_response = ResearchText
        /\ FinanceInProgress =>
                research_results = "" /\ writes["research_results"] = 0
        /\ pc \in {"finalize_response", "END", "done"} =>
                research_results = ResearchText /\ writes["research_results"] = 1
        /\ pc = "failed" =>
                research_results = IF raised_at = "finalize_response"
                                   THEN ResearchText ELSE ""

C26_Witness ==
    /\ pc = "coordinate_agents.await_final_analysis"
    /\ current_agent = "coordinator"
    /\ Len(calls) = 3
    /\ research_results = ""
    /\ research_response = ResearchText
    /\ Len(ResearchText) > 0

\* Both workers were invoked
BothWorkersRan ==
    /\ \E k \in 1..Len(calls) : calls[k].worker = "backrub"
    /\ \E k \in 1..Len(calls) : calls[k].worker = "warren"

\* C27 as stated: at the end of a successful invocation coordination_needed is
\* true exactly when both workers ran.
C27_FlagIffBothWorkers ==
    pc = "done" => (coordination_needed <=> BothWorkersRan)

\* C27, amended: at the end of a successful invocation coordination_needed is
\* true exactly when the invocation took a single-worker route and that
\* worker's text names coordination or the peer (research route: 'coordinate'
\* or 'warren'; finance route: 'coordinate' or 'backrub', in any case); then
\* one worker was invoked and suggested_agent names the other. On the
\* coordinate path, where both workers may run, and on the general path the
\* flag stays false.
C27_FlagIffSingleWorkerSuggests ==
    pc = "done" =>
        /\ current_agent = "backrub" =>
                (coordination_needed <=>
                    (Contains(Lower(research_results), "coordinate")
                        \/ Contains(Lower(research_results), "warren")))
        /\ current_agent = "warren" =>
                (coordination_needed <=>
                    (Contains(Lower(financial_analysis), "coordinate")
                        \/ Contains(Lower(financial_analysis), "backrub")))
        /\ current_agent \in {"coordinator", "general"} => ~coordination_needed
        /\ coordination_needed =>
                /\ Len(calls) = 1
                /\ ~BothWorkersRan
                /\ suggested_agent = IF current_agent = "backrub" THEN "warren"
                                     ELSE "backrub"
        /\ ~coordination_needed => suggested_agent = ""
        /\ BothWorkersRan => ~coordination_needed

C27_Witness ==
    /\ pc = "done"
    /\ current_agent = "coordinator"
    /\ BothWorkersRan
    /\ ~coordination_needed
    /\ research_results # ""
    /\ financial_analysis # ""

\* The positions of each path handler, in the order the handler passes them
HandlerPositions ==
    [route_to_backrub |-> <<"route_to_backrub", "route_to_backrub.await">>,
     route_to_warren |-> <<"route_to_warren", "route_to_warren.await">>,
     coordinate_agents |-> <<"coordinate_agents", "coordinate_agents.await_backrub",
                             "coordinate_agents.await_warren",
                             "coordinate_agents.await_final_analysis">>,
     handle_general |-> <<"handle_general">>]

\* position is the k-th position of handler
InHandler(handler, position, k) ==
    k \in 1..Len(HandlerPositions[handler]) /\ HandlerPositions[handler][k] = position

\* The invocation is inside a path handler
InSomeHandler(position) ==
    \E handler \in DOMAIN HandlerPositions, k \in 1..4 : InHandler(handler, position, k)

\* A step from one position to another keeps the order classify, one path
\* handler, finalize, return: it goes on inside the same handler, or from one
\* step to the next one (or fails)
StepInOrder(from, to) ==
    \/ to = from
    \/ to = "failed" /\ raised_at' = from
    \/ from = "classify" /\ to = "route_decision"
    \/ from = "route_decision"
        /\ \E handler \in DOMAIN HandlerPositions : InHandler(handler, to, 1)
    \/ \E handler \in DOMAIN HandlerPositions, k \in 1..4, l \in 1..4 :
            InHandler(handler, from, k) /\ InHandler(handler, to, l) /\ k < l
    \/ InSomeHandler(from) /\ to = "finalize_response"
    \/ from = "finalize_response" /\ to = "END"
    \/ from = "END" /\ to = "done" /\ result' = final_response

\* C28: every invocation executes classify, then exactly one of the four path
\* handlers, then finalize, each once and none revisited, and then returns
\* final_response; only a capability failure ends it earlier.
C28_ThreeStepsInOrder ==
    [][ /\ StepInOrder(pc, pc')
        /\ pc \notin {"done", "failed"}
        /\ raised_at' = "" => pc' # pc
      ]_vars

C28_Witness ==
    /\ pc = "done"
    /\ current_agent = "warren"
    /\ coordination_needed
    /\ suggested_agent = "backrub"
    /\ Len(calls) = 1
    /\ result # ""

\* C29: in every reachable state research_results and financial_analysis are
\* both non-empty only if current_agent is "coordinator"; so where
\* finalize_response finds both populated, its test of current_agent excludes
\* nothing and the summarization branch is the one taken.
C29_BothResultsOnlyOnCoordinate ==
    research_results # "" /\ financial_analysis # "" =>
        /\ current_agent = "coordinator"
        /\ FinalizeBranch(current_agent, research_results, financial_analysis,
                          final_response) = "summary"

C29_Witness ==
    /\ pc = "finalize_response"
    /\ research_results # ""
    /\ financial_analysis # ""
    /\ current_agent = "coordinator"
    /\ BothWorkersRan

\* prompt is a follow-up prompt: it embeds the user's query and the first 1000
\* characters of the research text
IsFollowUpPrompt(prompt) ==
    /\ Contains(prompt, "The user is asking: " \o original_query \o "\n")
    /\ Contains(prompt, "Here is the research that has been done: "
                        \o Prefix(research_response, 1000) \o "\n")
    /\ Contains(prompt, "Based on this research, provide a final, confident answer")

\* C30: on the coordinate path financial_analysis is assigned only the output
\* of the Warren invocation made with the follow-up prompt (the third worker
\* call, after Warren's call with the original query); the step that receives
\* the output of the call with the original query stores nothing, and
\* final_response is assigned only by finalize_response.
C30_StoredFinanceIsFollowUpOutput ==
    [][ current_agent = "coordinator" =>
          /\ financial_analysis' # financial_analysis =>
                /\ pc = "coordinate_agents.await_final_analysis"
                /\ Len(calls) = 3
                /\ calls[2] = [worker |-> "warren", query |-> original_query]
                /\ calls[3].worker = "warren"
                /\ calls[3].query # original_query
                /\ IsFollowUpPrompt(calls[3].query)
                /\ llm_calls'[Len(llm_calls')] =
                        [by |-> "warren.advice", input |-> calls[3].query]
                /\ financial_analysis' = llm_content'
          /\ pc = "coordinate_agents.await_warren" =>
                /\ AwaitedQuery = original_query
                /\ UNCHANGED <<financial_analysis, research_results, final_response>>
          /\ final_response' # final_response => pc = "finalize_response"
      ]_vars

C30_Witness ==
    /\ pc = "finalize_response"
    /\ current_agent = "coordinator"
    /\ Len(calls) = 3
    /\ IsFollowUpPrompt(calls[3].query)
    /\ financial_analysis = llm_content
    /\ financial_analysis # ""
    /\ llm_calls[Len(llm_calls)].by = "warren.advice"

\* The capability calls made so far by the worker step by on input
CallsBy(by, input) ==
    {i \in 1..Len(llm_calls) : llm_calls[i] = [by |-> by, input |-> input]}

\* C31: Warren invoked with coordinate_agents' follow-up prompt takes its
\* final-analysis branch whatever the query, the research text and the
\* capability's answers are: it makes exactly one capability call, the advice
\* call, returns that call's output verbatim, and does not take the branch
\* that returns the canned referral.
C31_FollowUpTakesFinalAnalysisBranch ==
    /\ pc = "coordinate_agents.await_final_analysis" =>
        /\ calls[Len(calls)].worker = "warren"
        /\ AwaitedQuery = FinalAnalysisPrompt(original_query, research_response)
        /\ \A analysis \in WarrenAnalysisOutputs \cup {"research", " RESEARCH \n"},
              advice \in AdviceOutputs :
                /\ WarrenCalls(AwaitedQuery, analysis) =
                        <<[by |-> "warren.advice", input |-> AwaitedQuery]>>
                /\ Warren(AwaitedQuery, analysis, advice) = advice
                /\ Warren(AwaitedQuery, analysis, advice) # WarrenReferral
    /\ pc = "finalize_response" /\ Len(calls) = 3 =>
        /\ Cardinality(CallsBy("warren.advice", calls[3].query)) = 1
        /\ CallsBy("warren.analysis", calls[3].query) = {}
        /\ llm_calls[Len(llm_calls)] = [by |-> "warren.advice", input |-> calls[3].query]
        /\ financial_analysis = llm_content
        /\ financial_analysis # WarrenReferral

\* The follow-up run answered although Warren's run on the original query took
\* the referral branch (an analysis call and no advice call)
C31_Witness ==
    /\ pc = "finalize_response"
    /\ Len(calls) = 3
    /\ CallsBy("warren.analysis", original_query) # {}
    /\ CallsBy("warren.advice", original_query) = {}
    /\ Cardinality(CallsBy("warren.advice", calls[3].query)) = 1
    /\ financial_analysis = "Buy a broad index fund and hold it."

\* C32: on the coordinate path, whenever the capability's answer to Backrub's
\* analysis prompt names "financial", the text Backrub returns contains
\* "financial" (in its closing sentence), so coordinate_agents invokes Warren
\* with the original query and does not take its research-only branch,
\* whatever the lookup tools returned.
C32_ReferralAlwaysTriggersFinance ==
    current_agent = "coordinator" /\ ResearchReturned /\ BackrubReferred(backrub_runs[1]) =>
        /\ Contains(ResearchText, "some financial advice could really help you out")
        /\ Contains(Lower(ResearchText), "financial")
        /\ research_response = ResearchText
        /\ Len(calls) >= 2
        /\ calls[2] = [worker |-> "warren", query |-> original_query]
        /\ pc \in {"finalize_response", "END", "done"} =>
                /\ Len(calls) = 3
                /\ research_results = ResearchText

\* Backrub found nothing (both lookups failed or returned nothing) and its
\* query names neither trigger word, yet Warren was invoked on its referral
C32_Witness ==
    /\ current_agent = "coordinator"
    /\ ResearchReturned
    /\ BackrubReferred(backrub_runs[1])
    /\ BackrubSections(backrub_runs[1].tools) = <<>>
    /\ ~HasTriggerToken(original_query)
    /\ pc = "coordinate_agents.await_warren"
    /\ calls[2] = [worker |-> "warren", query |-> original_query]

\* C33: every successful invocation returns a non-empty final_response unless
\* finalize_response's own summarization call returned empty text: an empty
\* answer of handle_general (or of Warren on its own route) is replaced by the
\* fallback apology, and the single-worker and research-only branches return
\* non-empty text.
C33_ResponseNonEmptyUnlessSummaryEmpty ==
    pc \in {"END", "done"} =>
        /\ pc = "done" => result = final_response
        /\ final_response = "" =>
                /\ current_agent = "coordinator"
                /\ research_results # ""
                /\ financial_analysis # ""
                /\ llm_calls[Len(llm_calls)].by = "finalize"
                /\ llm_content = ""
        /\ ~(current_agent = "coordinator" /\ research_results # ""
             /\ financial_analysis # "") => final_response # ""
        /\ llm_calls[Len(llm_calls)].by = "general" =>
                final_response = IF llm_content = ""
                                 THEN "Sorry, I'm having trouble with that right now."
                                      \o " Can you try again?"
                                 ELSE llm_content
        /\ research_results = "" /\ financial_analysis = ""
           /\ llm_calls[Len(llm_calls)].by # "general" =>
                final_response = "Sorry, I'm having trouble with that right now."
                                 \o " Can you try again?"

\* handle_general's capability call answered with empty text and the
\* invocation still returned text
C33_Witness ==
    /\ pc = "done"
    /\ llm_calls[Len(llm_calls)].by = "general"
    /\ llm_content = ""
    /\ research_results = ""
    /\ financial_analysis = ""
    /\ result # ""
    /\ Len(result) = 65
====
